---------------------------- MODULE Spec2Model ----------------------------
(***************************************************************************)
(* Batch orchestration of IDesign scene generation.                        *)
(*                                                                         *)
(*   run_multiworker.py  get_scene_ids, filter_incomplete_scenes,          *)
(*                       divide_work, main (the supervisor)                *)
(*   run_from_csv.py     main (the worker's item loop with bounded retry)  *)
(*   rerender_missing.py run_blender, main (render what lacks render.png)  *)
(*                                                                         *)
(* The variable entry names the entry point a behaviour runs:              *)
(*   "divide_work"      the pure function divide_work on arbitrary input   *)
(*   "run_from_csv"     run_from_csv.py started from the command line      *)
(*   "run_multiworker"  run_multiworker.py and the processes it spawns     *)
(*   "rerender_missing" rerender_missing.py started from the command line  *)
(***************************************************************************)
EXTENDS Integers, Sequences, FiniteSets, TLC

(***************************************************************************)
(* Bounds of the model.                                                    *)
(***************************************************************************)
MaxId == 3
MaxLen == 3
MaxRun == 10
MaxWorkers == 3

\* run_from_csv.py:27
MAX_RETRIES == 10

Ids == 1..MaxId

\* Python's None for an optional integer argument: the empty set; a given
\* value v is {v}.
None == {}
Optional(S) == {None} \cup {{v} : v \in S}

RECURSIVE SeqsUpTo(_, _)
SeqsUpTo(S, n) ==
  IF n = 0 THEN {<<>>}
  ELSE LET shorter == SeqsUpTo(S, n - 1)
       IN shorter \cup {Append(s, x) : s \in {t \in shorter : Len(t) = n - 1}, x \in S}

Range(s) == {s[k] : k \in 1..Len(s)}
Min(a, b) == IF a <= b THEN a ELSE b
SetMin(S) == CHOOSE x \in S : \A y \in S : x <= y
SetMax(S) == CHOOSE x \in S : \A y \in S : y <= x

RECURSIVE Concat(_, _)
\* chunks[1] \o ... \o chunks[k]
Concat(chunks, k) == IF k = 0 THEN <<>> ELSE Concat(chunks, k - 1) \o chunks[k]

\* Python's s[a:b] for 0 <= a <= b (the slice is clamped to the sequence).
Slice(s, a, b) == SubSeq(s, Min(a, Len(s)) + 1, Min(b, Len(s)))

(***************************************************************************)
(* run_multiworker.py: divide_work                                         *)
(***************************************************************************)
\* The size of chunk i (0-based), run_multiworker.py:63.
ChunkSizeDropRemainder(n, num, i) == n \div num
ChunkSizeRemainderLast(n, num, i) ==
  (n \div num) + (IF i >= num - (n % num) THEN 1 ELSE 0)
ChunkSize(n, num, i) ==
  LET chunk_size == n \div num
      remainder == n % num
  IN chunk_size + (IF i < remainder THEN 1 ELSE 0)

divide_work(ids, num) ==
  LET n == Len(ids)
      start[i \in 0..num] ==
        IF i = 0 THEN 0 ELSE start[i - 1] + ChunkSize(n, num, i - 1)
  IN [w \in 1..num |->
        Slice(ids, start[w - 1], start[w - 1] + ChunkSize(n, num, w - 1))]

(***************************************************************************)
(* The catalog and the filesystem.                                         *)
(*                                                                         *)
(* A record of the CSV file is [ID, Description]: ID is {k} when the ID    *)
(* cell parses as the integer k and None when int(row["ID"]) raises;       *)
(* Description is TRUE when row["Description"] can be read.                *)
(***************************************************************************)
GoodRow(k) == [ID |-> {k}, Description |-> TRUE]
Rows ==
  {[ID |-> id, Description |-> d] : id \in Optional(Ids), d \in BOOLEAN}
RowId(row) == CHOOSE k \in row.ID : TRUE
UniqueIds(c) ==
  \A a, b \in 1..Len(c) : (a # b /\ c[a].ID # None) => c[a].ID # c[b].ID

VARIABLES
  entry,        \* the entry point this behaviour runs
  csv_found,    \* can the catalog file be opened
  csv,          \* the records of the catalog file, in file order
  render,       \* the IDs whose scene directory holds render.png
  assets,       \* the IDs whose scene directory holds Assets/
  \* ---- run_multiworker.py
  s_args,       \* the supervisor's parsed arguments (but num_workers)
  num_workers,  \* args.num_workers
  all_scene_ids,\* run_multiworker.py:136
  scene_ids,    \* the list handed to divide_work
  work_chunks,  \* divide_work's result (a sequence of chunks)
  s_pc,         \* the supervisor's position in run_multiworker.main
  s_k,          \* the index of the supervisor's current loop (1-based)
  all_done,     \* run_multiworker.py:245
  processes,    \* the spawned workers, in spawn order
  log_files,    \* per spawned worker: is its log handle open
  printed,      \* the command lines the dry run printed
  status_parts, \* run_multiworker.py:246, the status line of the current poll
  report,       \* the per-worker lines of the final summary
  \* ---- run_from_csv.py
  w_args,       \* the worker's parsed arguments
  w_pc,         \* the worker's position in run_from_csv.main
  i,            \* the index of the current record (1-based)
  attempt,      \* the retry loop's variable (0 outside the loop)
  successful,   \* run_from_csv.py:190
  failed,       \* run_from_csv.py:191
  skipped,      \* run_from_csv.py:192
  error,        \* run_from_csv.py:259, e inside the except block ("" outside)
  \* ---- what happened so far (read by the properties only)
  outcome,      \* per record: "none", "Skipped", "Success", "PermanentFailure"
  tries,        \* per record: the outcomes of its finished attempts
  seen_render,  \* the records at which render_file.exists() was true
  touched,      \* the IDs whose scene directory the worker created or wrote
  invoked,      \* the stages the current attempt has invoked so far, in order
  w_crash,      \* why the worker ended abnormally ("" when it did not)
  \* ---- rerender_missing.py (its successful, failed and loop index are the
  \* variables successful, failed and i above)
  scene_dirs,   \* the IDs whose scene_* directory exists in results_dir
  graphs,       \* the IDs whose scene directory holds scene_graph.json
  blender_script, \* does place_in_blender.py exist next to the script
  r_args,       \* rerender_missing's parsed arguments
  to_render,    \* rerender_missing.py:50
  r_pc,         \* the position in rerender_missing.main
  r_outcome,    \* per selected scene: "none", "successful", "failed"
  r_crash       \* the exception that ended rerender_missing ("" when none)

envVars == <<csv_found, csv, render, assets>>
planVars == <<s_args, all_scene_ids>>
runVars == <<s_k, all_done, processes, log_files, printed, status_parts, report>>
supVars == <<planVars, num_workers, scene_ids, work_chunks, s_pc, runVars>>
wkVars == <<w_args, w_pc, i, attempt, successful, failed, skipped, error>>
histVars == <<outcome, tries, seen_render, touched, invoked, w_crash>>
rrVars == <<scene_dirs, graphs, blender_script, r_args, to_render, r_pc,
            r_outcome, r_crash>>
vars == <<entry, rrVars, envVars, supVars, wkVars, histVars>>

NoArgs ==
  [start_id |-> None, end_id |-> None, skip_existing |-> FALSE,
   skip_retrieve |-> FALSE, skip_render |-> FALSE]

NoSupervisorArgs ==
  [start_id |-> None, end_id |-> None, skip_existing |-> FALSE,
   skip_retrieve |-> FALSE, skip_render |-> FALSE, dry_run |-> FALSE]

\* rerender_missing in behaviours that do not run it.
RerenderIdle ==
  /\ scene_dirs = {}
  /\ graphs = {}
  /\ blender_script = TRUE
  /\ r_args = [dry_run |-> FALSE]
  /\ to_render = <<>>
  /\ r_pc = "idle"
  /\ r_outcome = <<>>
  /\ r_crash = ""

\* The worker before it starts (and in behaviours that do not run it).
WorkerIdle ==
  /\ w_args = NoArgs
  /\ w_pc = "idle"
  /\ i = 0
  /\ attempt = 0
  /\ successful = 0
  /\ failed = 0
  /\ skipped = 0
  /\ error = ""
  /\ outcome = <<>>
  /\ tries = <<>>
  /\ seen_render = {}
  /\ touched = {}
  /\ invoked = <<>>
  /\ w_crash = ""

\* The inputs divide_work is applied to: every short list over Ids (with
\* repetitions, in any order) and the runs 1..n up to MaxRun.
DivideInputs ==
  SeqsUpTo(Ids, MaxLen) \cup {[k \in 1..n |-> k] : n \in 0..MaxRun}

InitDivide ==
  /\ entry = "divide_work"
  /\ scene_ids \in DivideInputs
  /\ num_workers \in 1..MaxWorkers
  /\ work_chunks = <<>>
  /\ s_pc = "divide"
  /\ s_args = NoSupervisorArgs
  /\ all_scene_ids = <<>>
  /\ s_k = 0
  /\ all_done = FALSE
  /\ processes = <<>>
  /\ log_files = <<>>
  /\ printed = <<>>
  /\ status_parts = <<>>
  /\ report = <<>>
  /\ csv_found = TRUE
  /\ csv = <<>>
  /\ render = {}
  /\ assets = {}
  /\ WorkerIdle
  /\ RerenderIdle

\* run_multiworker.py:150 (and the function called on its own)
ApplyDivideWork ==
  /\ entry = "divide_work"
  /\ s_pc = "divide"
  /\ work_chunks' = divide_work(scene_ids, num_workers)
  /\ s_pc' = "divided"
  /\ UNCHANGED <<entry, rrVars, envVars, planVars, num_workers, scene_ids, runVars,
                 wkVars, histVars>>

NextDivide == ApplyDivideWork

SpecDivide == InitDivide /\ [][NextDivide]_vars

(***************************************************************************)
(* run_from_csv.py: main, the worker's loop over the records of the CSV    *)
(***************************************************************************)
MaxRows == 2

\* The values given for --start_id and --end_id.
ArgIds == 2..(MaxId - 1)

WorkerArgs ==
  [start_id : Optional(ArgIds), end_id : Optional(ArgIds),
   skip_existing : BOOLEAN, skip_retrieve : BOOLEAN, skip_render : BOOLEAN]

WorkerCatalogs == {c \in SeqsUpTo(Rows, MaxRows) : UniqueIds(c)}

CatalogIds(c) == UNION {c[k].ID : k \in 1..Len(c)}

SupervisorIdle ==
  /\ s_args = NoSupervisorArgs
  /\ num_workers = 0
  /\ all_scene_ids = <<>>
  /\ scene_ids = <<>>
  /\ work_chunks = <<>>
  /\ s_pc = "idle"
  /\ s_k = 0
  /\ all_done = FALSE
  /\ processes = <<>>
  /\ log_files = <<>>
  /\ printed = <<>>
  /\ status_parts = <<>>
  /\ report = <<>>

InitWorker ==
  /\ entry = "run_from_csv"
  /\ csv_found \in BOOLEAN
  /\ csv \in (IF csv_found THEN WorkerCatalogs ELSE {<<>>})
  /\ render \in SUBSET CatalogIds(csv)
  /\ assets = render
  /\ SupervisorIdle
  /\ RerenderIdle
  /\ w_args \in WorkerArgs
  /\ w_pc = "read_csv"
  /\ i = 0
  /\ attempt = 0
  /\ successful = 0
  /\ failed = 0
  /\ skipped = 0
  /\ error = ""
  /\ outcome = <<>>
  /\ tries = <<>>
  /\ seen_render = {}
  /\ touched = {}
  /\ invoked = <<>>
  /\ w_crash = ""

\* run_from_csv.py:198-203, the ID range filter
InRange(id, args) ==
  /\ \A s \in args.start_id : ~(id < s)
  /\ \A e \in args.end_id : ~(id > e)

\* run_from_csv.py:222, for attempt in range(1, MAX_RETRIES + 1)
RetryRangeShort == 1..(MAX_RETRIES - 1)
RetryRangeLong == 1..(MAX_RETRIES + 1)
RetryRange == 1..MAX_RETRIES

\* The attempt that follows a failed attempt a, 0 when the loop is over
\* (run_from_csv.py:222, 259-266).
AfterFailure(a) == IF a + 1 \in RetryRange THEN a + 1 ELSE 0

\* The attempt that follows a successful attempt a: none, the loop is left
\* (run_from_csv.py:257, break).
AfterSuccessNoBreak(a) == IF a + 1 \in RetryRange THEN a + 1 ELSE 0
AfterSuccess(a) == 0

\* run_from_csv.py:183-192
ReadCsv ==
  /\ entry = "run_from_csv"
  /\ w_pc = "read_csv"
  /\ csv_found
  /\ w_pc' = "row"
  /\ i' = 1
  /\ outcome' = [k \in 1..Len(csv) |-> "none"]
  /\ tries' = [k \in 1..Len(csv) |-> <<>>]
  /\ UNCHANGED <<entry, rrVars, envVars, supVars, w_args, attempt, successful, failed,
                 skipped, error, seen_render, touched, invoked, w_crash>>

AtRow == entry = "run_from_csv" /\ w_pc = "row" /\ i <= Len(csv)

Crash(why) ==
  /\ w_pc' = "crashed"
  /\ w_crash' = why
  /\ UNCHANGED <<entry, rrVars, envVars, supVars, w_args, i, attempt, successful,
                 failed, skipped, error, outcome, tries, touched, invoked>>

\* run_from_csv.py:184, open(csv_path) raises before the loop
ReadCsvFails ==
  /\ entry = "run_from_csv"
  /\ w_pc = "read_csv"
  /\ ~csv_found
  /\ Crash("open_csv")
  /\ UNCHANGED seen_render

\* run_from_csv.py:207-210: what render_file.exists() answers at record i
SeeRender ==
  seen_render' =
    IF RowId(csv[i]) \in render THEN seen_render \cup {i} ELSE seen_render

Skip ==
  /\ skipped' = skipped + 1
  /\ outcome' = [outcome EXCEPT ![i] = "Skipped"]
  /\ i' = i + 1
  /\ UNCHANGED <<entry, rrVars, envVars, supVars, w_args, w_pc, attempt, successful,
                 failed, error, tries, touched, invoked, w_crash>>

\* run_from_csv.py:195, int(row["ID"]) raises outside the try block
RowBadId ==
  /\ AtRow
  /\ csv[i].ID = None
  /\ Crash("row_fields")
  /\ UNCHANGED seen_render

\* run_from_csv.py:197-203
RowOutOfRange ==
  /\ AtRow
  /\ csv[i].ID # None
  /\ ~InRange(RowId(csv[i]), w_args)
  /\ Skip
  /\ UNCHANGED seen_render

\* run_from_csv.py:205, row["Description"] raises outside the try block
RowNoDescription ==
  /\ AtRow
  /\ csv[i].ID # None
  /\ InRange(RowId(csv[i]), w_args)
  /\ ~csv[i].Description
  /\ Crash("row_fields")
  /\ UNCHANGED seen_render

\* The record is well formed and inside the ID range.
RowSelected ==
  /\ AtRow
  /\ csv[i].ID # None
  /\ InRange(RowId(csv[i]), w_args)
  /\ csv[i].Description

\* run_from_csv.py:210, if args.skip_existing and render_file.exists()
SkipsExistingNever(args, id, rendered) == FALSE
SkipsExisting(args, id, rendered) == args.skip_existing /\ id \in rendered

\* run_from_csv.py:209-213
RowSkipExisting ==
  /\ RowSelected
  /\ SkipsExisting(w_args, RowId(csv[i]), render)
  /\ Skip
  /\ SeeRender

\* run_from_csv.py:215, scene_dir.mkdir raises outside the try block (the
\* path exists and is no directory, or the results directory is not writable)
RowMkdirFails ==
  /\ RowSelected
  /\ ~SkipsExisting(w_args, RowId(csv[i]), render)
  /\ Crash("mkdir")
  /\ SeeRender

\* run_from_csv.py:215-222, the directory is there: the first attempt starts
RowBegin ==
  /\ RowSelected
  /\ ~SkipsExisting(w_args, RowId(csv[i]), render)
  /\ touched' = touched \cup {RowId(csv[i])}
  /\ attempt' = SetMin(RetryRange)
  /\ w_pc' = "stage1"
  /\ invoked' = <<>>
  /\ SeeRender
  /\ UNCHANGED <<entry, rrVars, envVars, supVars, w_args, i, successful, failed,
                 skipped, error, outcome, tries, w_crash>>

\* run_from_csv.py:222-224, where the body of the retry loop starts: every
\* iteration enters the try block at its first statement
RetryFromRetrieve == "stage2"
RetryFrom == "stage1"

\* Where the loop goes after an attempt: to attempt next, or to the next record.
Continue(next) ==
  /\ invoked' = <<>>
  /\ IF next = 0
     THEN attempt' = 0 /\ i' = i + 1 /\ w_pc' = "row"
     ELSE attempt' = next /\ i' = i /\ w_pc' = RetryFrom

\* run_from_csv.py:260-266, the body of the except block
AttemptFails ==
  /\ tries' = [tries EXCEPT ![i] = Append(@, "fail")]
  /\ IF attempt = MAX_RETRIES
     THEN failed' = failed + 1 /\ outcome' = [outcome EXCEPT ![i] = "PermanentFailure"]
     ELSE UNCHANGED <<failed, outcome>>
  /\ Continue(AfterFailure(attempt))
  /\ UNCHANGED <<successful>>

\* run_from_csv.py:255-257
AttemptSucceeds ==
  /\ tries' = [tries EXCEPT ![i] = Append(@, "ok")]
  /\ successful' = successful + 1
  /\ outcome' = [outcome EXCEPT ![i] = "Success"]
  /\ Continue(AfterSuccess(attempt))
  /\ UNCHANGED <<failed>>

\* A stage raises: control goes to the except block (run_from_csv.py:259).
Raise(msg) ==
  /\ w_pc' = "except"
  /\ error' = msg
  /\ UNCHANGED <<i, attempt, successful, failed, outcome, tries>>

\* No exception: control goes on to the next statement of the try block.
Goto(pc) ==
  /\ w_pc' = pc
  /\ UNCHANGED <<i, attempt, successful, failed, error, outcome, tries>>

\* run_from_csv.py:227, 236, 244: generate_scene is called in every attempt,
\* the other two stages unless their skip option is given
StageEnabledAll(stage, args) == TRUE
StageEnabled(stage, args) ==
  IF stage = "retrieve" THEN ~args.skip_retrieve
  ELSE IF stage = "render" THEN ~args.skip_render
  ELSE TRUE

\* run_from_csv.py:224-233, generate_scene returns or raises
Stage1Generate ==
  /\ entry = "run_from_csv"
  /\ w_pc = "stage1"
  /\ invoked' = Append(invoked, "generate")
  /\ \E ok \in BOOLEAN :
       IF ok THEN Goto("stage2") ELSE Raise("generate_scene")
  /\ UNCHANGED <<entry, rrVars, envVars, supVars, w_args, skipped, seen_render,
                 touched, w_crash>>

\* run_from_csv.py:30-59, run_retrieve: retrieve.py exits with status 0 or
\* not, and may have left Assets/ behind; only the status is looked at
run_retrieve(status) == status = 0

\* run_from_csv.py:235-241
Stage2Retrieve ==
  /\ entry = "run_from_csv"
  /\ w_pc = "stage2"
  /\ IF ~StageEnabled("retrieve", w_args)
     THEN Goto("stage3") /\ UNCHANGED <<assets, invoked>>
     ELSE \E status \in {0, 1}, wrote \in BOOLEAN :
            /\ invoked' = Append(invoked, "retrieve")
            /\ assets' = IF wrote THEN assets \cup {RowId(csv[i])} ELSE assets
            /\ IF run_retrieve(status)
               THEN Goto("stage3")
               ELSE Raise("Asset retrieval failed")
  /\ UNCHANGED <<entry, rrVars, csv_found, csv, render, supVars, w_args, skipped,
                 seen_render, touched, w_crash>>

\* run_from_csv.py:62-95, run_blender: Blender exits with status 0 or not,
\* and may have written render.png
run_blender(status) == status = 0

\* run_from_csv.py:243-247, 252-257
Stage3Render ==
  /\ entry = "run_from_csv"
  /\ w_pc = "stage3"
  /\ IF ~StageEnabled("render", w_args)
     THEN AttemptSucceeds /\ UNCHANGED <<render, error>>
     ELSE \E status \in {0, 1}, wrote \in BOOLEAN :
            /\ invoked' = Append(invoked, "render")
            /\ render' = IF wrote THEN render \cup {RowId(csv[i])} ELSE render
            /\ IF run_blender(status)
               THEN Goto("verify")
               ELSE Raise("Blender rendering failed")
  /\ UNCHANGED <<entry, rrVars, csv_found, csv, assets, supVars, w_args, skipped,
                 seen_render, touched, w_crash>>

\* run_from_csv.py:250, render_file.exists()
RenderVerifiedAlways(id, rendered) == TRUE
RenderVerified(id, rendered) == id \in rendered

\* run_from_csv.py:250-257, Blender exited with status 0: is render.png there
VerifyRender ==
  /\ entry = "run_from_csv"
  /\ w_pc = "verify"
  /\ IF RenderVerified(RowId(csv[i]), render)
     THEN AttemptSucceeds /\ UNCHANGED error
     ELSE Raise("render.png not found after Blender execution")
          /\ UNCHANGED invoked
  /\ UNCHANGED <<entry, rrVars, envVars, supVars, w_args, skipped, seen_render,
                 touched, w_crash>>

\* run_from_csv.py:259-266, the except block
Except ==
  /\ entry = "run_from_csv"
  /\ w_pc = "except"
  /\ AttemptFails
  /\ error' = ""
  /\ UNCHANGED <<entry, rrVars, envVars, supVars, w_args, skipped, seen_render,
                 touched, w_crash>>

\* run_from_csv.py:47-52, 83-88: subprocess.run is given no timeout, so a
\* child that never exits keeps the worker inside the call
StageHangs ==
  /\ entry = "run_from_csv"
  /\ \/ /\ w_pc = "stage2"
        /\ StageEnabled("retrieve", w_args)
        /\ invoked' = Append(invoked, "retrieve")
     \/ /\ w_pc = "stage3"
        /\ StageEnabled("render", w_args)
        /\ invoked' = Append(invoked, "render")
  /\ w_pc' = "hung"
  /\ UNCHANGED <<entry, rrVars, envVars, supVars, w_args, i, attempt, successful,
                 failed, skipped, error, outcome, tries, seen_render, touched,
                 w_crash>>

\* run_from_csv.py:268-275, the loop is over: the summary, then exit code 0
Summary ==
  /\ entry = "run_from_csv"
  /\ w_pc = "row"
  /\ i > Len(csv)
  /\ w_pc' = "done"
  /\ UNCHANGED <<entry, rrVars, envVars, supVars, w_args, i, attempt, successful,
                 failed, skipped, error, histVars>>

\* The exit code of the worker's process, None while it runs: main returns
\* after the summary and run_from_csv.py:279 calls main() and nothing
\* else, so the interpreter exits with 0; an exception that leaves main ends
\* it with 1.
WorkerExitCodeCountsFailed ==
  IF w_pc = "done" THEN (IF failed > 0 THEN {1} ELSE {0})
  ELSE IF w_pc = "crashed" THEN {1}
  ELSE None
WorkerExitCode ==
  IF w_pc = "done" THEN {0}
  ELSE IF w_pc = "crashed" THEN {1}
  ELSE None

NextWorker ==
  \/ ReadCsv
  \/ ReadCsvFails
  \/ RowBadId
  \/ RowOutOfRange
  \/ RowNoDescription
  \/ RowSkipExisting
  \/ RowMkdirFails
  \/ RowBegin
  \/ Stage1Generate
  \/ Stage2Retrieve
  \/ Stage3Render
  \/ VerifyRender
  \/ Except
  \/ StageHangs
  \/ Summary

SpecWorker == InitWorker /\ [][NextWorker]_vars

(***************************************************************************)
(* run_multiworker.py: get_scene_ids, filter_incomplete_scenes             *)
(***************************************************************************)
\* run_multiworker.py:39, sorted(ids)
Unsorted(ids) == ids
Sorted(ids) == SortSeq(ids, LAMBDA a, b : a < b)

\* run_multiworker.py:28-39
get_scene_ids_no_end(catalog, start_id, end_id) ==
  LET ids == [k \in 1..Len(catalog) |-> RowId(catalog[k])]
      from == IF start_id # None
              THEN SelectSeq(ids, LAMBDA x : \A v \in start_id : x >= v)
              ELSE ids
  IN Sorted(from)
get_scene_ids(catalog, start_id, end_id) ==
  LET ids == [k \in 1..Len(catalog) |-> RowId(catalog[k])]
      from == IF start_id # None
              THEN SelectSeq(ids, LAMBDA x : \A v \in start_id : x >= v)
              ELSE ids
      upto == IF end_id # None
              THEN SelectSeq(from, LAMBDA x : \A v \in end_id : x <= v)
              ELSE from
  IN Sorted(upto)

\* run_multiworker.py:42-50
filter_keeps_all(ids, rendered) == ids
filter_incomplete_scenes(ids, rendered) ==
  SelectSeq(ids, LAMBDA x : x \notin rendered)

(***************************************************************************)
(* run_multiworker.py: main, the supervisor, and the processes it spawns   *)
(***************************************************************************)
SupervisorArgs ==
  [start_id : Optional(ArgIds), end_id : Optional(ArgIds),
   skip_existing : BOOLEAN, skip_retrieve : BOOLEAN, skip_render : BOOLEAN,
   dry_run : BOOLEAN]

\* Every record has an ID that parses and a Description.
WellFormed(c) == \A k \in 1..Len(c) : c[k].ID # None /\ c[k].Description

\* Well-formed catalogs; an ID may occur twice and the IDs come in any order.
SupervisorCatalogs ==
  {[k \in 1..Len(ids) |-> GoodRow(ids[k])] : ids \in SeqsUpTo(Ids, MaxLen)}

\* Catalogs with a record that lacks its ID or its Description.
MalformedCatalogs == {c \in SeqsUpTo(Rows, MaxRows) : ~WellFormed(c)}

InitSupervisor ==
  /\ entry = "run_multiworker"
  /\ csv_found \in BOOLEAN
  /\ csv \in (IF csv_found THEN SupervisorCatalogs \cup MalformedCatalogs
                           ELSE {<<>>})
  /\ s_args \in SupervisorArgs
  \* --skip_retrieve and --skip_render are only handed on to the workers:
  \* they vary in the runs that print the command lines
  /\ s_args.dry_run \/ (~s_args.skip_retrieve /\ ~s_args.skip_render)
  \* the supervisor looks for render.png only under --skip_existing
  /\ render \in IF s_args.skip_existing THEN SUBSET CatalogIds(csv) ELSE {{}}
  /\ assets = render
  /\ num_workers \in (0 - 1)..MaxWorkers
  /\ all_scene_ids = <<>>
  /\ scene_ids = <<>>
  /\ work_chunks = <<>>
  /\ s_pc = "get_scene_ids"
  /\ s_k = 0
  /\ all_done = FALSE
  /\ processes = <<>>
  /\ log_files = <<>>
  /\ printed = <<>>
  /\ status_parts = <<>>
  /\ report = <<>>
  /\ WorkerIdle
  /\ RerenderIdle

\* The options run_from_csv.py's parser accepts (run_from_csv.py:113-162).
WorkerOptions ==
  {"--csv_file", "--results_dir", "--start_id", "--end_id", "--auto",
   "--verbose", "--skip_retrieve", "--skip_render", "--skip_existing"}

\* run_multiworker.py:212-225, the worker's command line
WorkerCmd(chunk, args) ==
  [options |-> {"--csv_file", "--results_dir", "--start_id", "--end_id", "--timeout"}
                 \cup (IF args.skip_existing THEN {"--skip_existing"} ELSE {})
                 \cup (IF args.skip_retrieve THEN {"--skip_retrieve"} ELSE {})
                 \cup (IF args.skip_render THEN {"--skip_render"} ELSE {}),
   start_id |-> {SetMin(Range(chunk))},
   end_id |-> {SetMax(Range(chunk))},
   skip_existing |-> args.skip_existing]

\* run_multiworker.py:181-194, the command line the dry run prints
DryRunCmdNoFlags(chunk, args) ==
  [options |-> {"--csv_file", "--results_dir", "--start_id", "--end_id", "--timeout"},
   start_id |-> {SetMin(Range(chunk))},
   end_id |-> {SetMax(Range(chunk))},
   skip_existing |-> FALSE]
DryRunCmd(chunk, args) ==
  [options |-> {"--csv_file", "--results_dir", "--start_id", "--end_id", "--timeout"}
                 \cup (IF args.skip_existing THEN {"--skip_existing"} ELSE {})
                 \cup (IF args.skip_retrieve THEN {"--skip_retrieve"} ELSE {})
                 \cup (IF args.skip_render THEN {"--skip_render"} ELSE {}),
   start_id |-> {SetMin(Range(chunk))},
   end_id |-> {SetMax(Range(chunk))},
   skip_existing |-> args.skip_existing]

\* The exit codes a worker started with cmd can end with: 2 when argparse
\* rejects the command line (run_from_csv.py:164), else 0 after the summary
\* or 1 after an uncaught exception.
ExitCodes(cmd) == IF cmd.options \subseteq WorkerOptions THEN {0, 1} ELSE {2}

\* The exit code of a process ended by SIGTERM, as Popen reports it.
SIGTERM == 0 - 15

Running(s) == entry = "run_multiworker" /\ s_pc = s

\* run_multiworker.py:30-32: open raises when the file is missing, and
\* int(row["ID"]) raises at a record whose ID is missing or no integer
GetSceneIdsRaises(found, catalog) ==
  ~found \/ \E k \in 1..Len(catalog) : catalog[k].ID = None

\* run_multiworker.py:135-136 (an exception raised here leaves main)
GetSceneIds ==
  /\ Running("get_scene_ids")
  /\ IF GetSceneIdsRaises(csv_found, csv)
     THEN s_pc' = "exit_error" /\ UNCHANGED all_scene_ids
     ELSE /\ all_scene_ids' = get_scene_ids(csv, s_args.start_id, s_args.end_id)
          /\ s_pc' = "filter"
  /\ UNCHANGED <<entry, rrVars, envVars, s_args, num_workers, scene_ids, work_chunks,
                 runVars, wkVars, histVars>>

\* run_multiworker.py:138-147
FilterIncomplete ==
  /\ Running("filter")
  /\ scene_ids' = IF s_args.skip_existing
                  THEN filter_incomplete_scenes(all_scene_ids, render)
                  ELSE all_scene_ids
  /\ s_pc' = IF scene_ids' = <<>> THEN "return_no_scenes" ELSE "divide"
  /\ UNCHANGED <<entry, rrVars, envVars, planVars, num_workers, work_chunks, runVars,
                 wkVars, histVars>>

\* run_multiworker.py:56-57, n // num_workers raises ZeroDivisionError
DivideWorkRaises(num) == num = 0

\* run_multiworker.py:149-176 (an exception raised in divide_work leaves main)
PlanChunks ==
  /\ Running("divide")
  /\ IF DivideWorkRaises(num_workers)
     THEN s_pc' = "exit_error" /\ UNCHANGED <<work_chunks, s_k>>
     ELSE /\ work_chunks' = divide_work(scene_ids, num_workers)
          /\ s_pc' = IF s_args.dry_run THEN "dry_run" ELSE "launch"
          /\ s_k' = 1
  /\ UNCHANGED <<entry, rrVars, envVars, planVars, num_workers, scene_ids, all_done,
                 processes, log_files, printed, status_parts, report,
                 wkVars, histVars>>

\* run_multiworker.py:176-196, one command line per chunk that is not empty
DryRun ==
  /\ Running("dry_run")
  /\ LET chunks == SelectSeq(work_chunks, LAMBDA c : c # <<>>)
     IN printed' = [k \in 1..Len(chunks) |-> DryRunCmd(chunks[k], s_args)]
  /\ s_pc' = "return_dry_run"
  /\ UNCHANGED <<entry, rrVars, envVars, planVars, num_workers, scene_ids, work_chunks,
                 s_k, all_done, processes, log_files, status_parts, report,
                 wkVars, histVars>>

\* run_multiworker.py:205-206, a worker is started for a chunk that is not
\* empty
SpawnsIfSeveral(chunk) == Len(chunk) > 1
Spawns(chunk) == chunk # <<>>

\* run_multiworker.py:204-236, one iteration of the launch loop
Launch ==
  /\ Running("launch")
  /\ s_k <= Len(work_chunks)
  /\ LET chunk == work_chunks[s_k]
     IN IF ~Spawns(chunk)
        THEN UNCHANGED <<processes, log_files>>
        ELSE /\ log_files' = Append(log_files, TRUE)
             /\ processes' = Append(processes,
                  [worker_id |-> s_k - 1, chunk |-> chunk,
                   cmd |-> WorkerCmd(chunk, s_args), alive |-> TRUE,
                   code |-> None, returncode |-> None, signalled |-> FALSE])
  /\ s_k' = s_k + 1
  /\ UNCHANGED <<entry, rrVars, envVars, planVars, num_workers, scene_ids, work_chunks,
                 s_pc, all_done, printed, status_parts, report,
                 wkVars, histVars>>

\* run_multiworker.py:238-245, the try block is entered
StartMonitor ==
  /\ Running("launch")
  /\ s_k > Len(work_chunks)
  /\ s_pc' = "monitor"
  /\ s_k' = 1
  /\ all_done' = TRUE
  /\ status_parts' = <<>>
  /\ UNCHANGED <<entry, rrVars, envVars, planVars, num_workers, scene_ids, work_chunks,
                 processes, log_files, printed, report, wkVars, histVars>>

\* Popen.poll(): a process that has ended is reaped and its code kept.
Polled(p) == IF p.alive THEN p ELSE [p EXCEPT !.returncode = p.code]

\* run_multiworker.py:250-256, what the status line says of a worker whose
\* poll() answered ret
Status(ret) ==
  IF ret = None THEN "running" ELSE IF ret = {0} THEN "done" ELSE "failed"

\* run_multiworker.py:248-256, one worker is polled
Poll ==
  /\ Running("monitor")
  /\ s_k <= Len(processes)
  /\ processes' = [processes EXCEPT ![s_k] = Polled(@)]
  /\ all_done' = (all_done /\ ~processes[s_k].alive)
  /\ status_parts' = Append(status_parts,
       [worker_id |-> processes[s_k].worker_id,
        status |-> Status(processes'[s_k].returncode),
        ret |-> processes'[s_k].returncode])
  /\ s_k' = s_k + 1
  /\ UNCHANGED <<entry, rrVars, envVars, planVars, num_workers, scene_ids, work_chunks,
                 s_pc, log_files, printed, report, wkVars, histVars>>

AllClosed == [k \in 1..Len(log_files) |-> FALSE]

\* run_multiworker.py:258-267 and 278-280: every worker was polled; the loop
\* is left (and the log handles closed) or sleeps and starts over
EndPoll ==
  /\ Running("monitor")
  /\ s_k > Len(processes)
  /\ IF all_done
     THEN /\ s_pc' = "summary"
          /\ log_files' = AllClosed
          /\ UNCHANGED <<s_k, all_done, status_parts>>
     ELSE /\ s_k' = 1
          /\ all_done' = TRUE
          /\ status_parts' = <<>>
          /\ UNCHANGED <<s_pc, log_files>>
  /\ UNCHANGED <<entry, rrVars, envVars, planVars, num_workers, scene_ids, work_chunks,
                 processes, printed, report, wkVars, histVars>>

\* run_multiworker.py:289, what the summary says of a worker whose
\* returncode is ret
SummaryStatusAlways(ret) == "SUCCESS"
SummaryStatus(ret) == IF ret = {0} THEN "SUCCESS" ELSE "FAILED"

\* run_multiworker.py:282-293
FinalSummary ==
  /\ Running("summary")
  /\ report' = [k \in 1..Len(processes) |->
                  [worker_id |-> processes[k].worker_id,
                   status |-> SummaryStatus(processes[k].returncode)]]
  /\ s_pc' = "return_complete"
  /\ UNCHANGED <<entry, rrVars, envVars, planVars, num_workers, scene_ids, work_chunks,
                 s_k, all_done, processes, log_files, printed, status_parts,
                 wkVars, histVars>>

\* A KeyboardInterrupt outside the try block (run_multiworker.py:135-240 and
\* 282-293) is not caught: the supervisor process ends with the traceback.
InterruptUncaught ==
  /\ entry = "run_multiworker"
  /\ s_pc \in {"get_scene_ids", "filter", "divide", "dry_run", "launch", "summary"}
  /\ s_pc' = "exit_interrupt"
  /\ UNCHANGED <<entry, rrVars, envVars, planVars, num_workers, scene_ids, work_chunks,
                 runVars, wkVars, histVars>>

\* run_multiworker.py:269-270, a KeyboardInterrupt inside the try block
InterruptMonitor ==
  /\ Running("monitor")
  /\ s_pc' = "terminate"
  /\ s_k' = 1
  /\ status_parts' = <<>>
  /\ UNCHANGED <<entry, rrVars, envVars, planVars, num_workers, scene_ids, work_chunks,
                 all_done, processes, log_files, printed, report, wkVars, histVars>>

\* A KeyboardInterrupt inside the except block (run_multiworker.py:270-276)
\* leaves it; the finally block closes the log handles (278-280) and the
\* supervisor process ends with the traceback.
InterruptHandler ==
  /\ entry = "run_multiworker"
  /\ s_pc \in {"terminate", "join"}
  /\ s_pc' = "exit_interrupt"
  /\ log_files' = AllClosed
  /\ UNCHANGED <<entry, rrVars, envVars, planVars, num_workers, scene_ids, work_chunks,
                 s_k, all_done, processes, printed, status_parts, report,
                 wkVars, histVars>>

\* Popen.terminate(): polls first; SIGTERM is sent only to a process that
\* has not ended.
Terminated(p) ==
  IF p.alive THEN [p EXCEPT !.signalled = TRUE] ELSE Polled(p)

\* run_multiworker.py:271-272, proc.terminate() for one worker
Terminate ==
  /\ Running("terminate")
  /\ s_k <= Len(processes)
  /\ processes' = [processes EXCEPT ![s_k] = Terminated(@)]
  /\ s_k' = s_k + 1
  /\ UNCHANGED <<entry, rrVars, envVars, planVars, num_workers, scene_ids, work_chunks,
                 s_pc, all_done, log_files, printed, status_parts, report,
                 wkVars, histVars>>

\* run_multiworker.py:273, the second loop of the except block starts
StartJoin ==
  /\ Running("terminate")
  /\ s_k > Len(processes)
  /\ s_pc' = "join"
  /\ s_k' = 1
  /\ UNCHANGED <<entry, rrVars, envVars, planVars, num_workers, scene_ids, work_chunks,
                 all_done, processes, log_files, printed, status_parts, report,
                 wkVars, histVars>>

\* Popen.wait() returns once the process has ended.
WaitReturnsAtOnce(p) == TRUE
WaitReturns(p) == ~p.alive

\* run_multiworker.py:273-274, proc.wait() for one worker
Join ==
  /\ Running("join")
  /\ s_k <= Len(processes)
  /\ WaitReturns(processes[s_k])
  /\ processes' = [processes EXCEPT ![s_k] = Polled(@)]
  /\ s_k' = s_k + 1
  /\ UNCHANGED <<entry, rrVars, envVars, planVars, num_workers, scene_ids, work_chunks,
                 s_pc, all_done, log_files, printed, status_parts, report,
                 wkVars, histVars>>

\* run_multiworker.py:275-280, every worker was waited for: the log handles
\* are closed and main returns
Cancelled ==
  /\ Running("join")
  /\ s_k > Len(processes)
  /\ s_pc' = "return_cancelled"
  /\ log_files' = AllClosed
  /\ UNCHANGED <<entry, rrVars, envVars, planVars, num_workers, scene_ids, work_chunks,
                 s_k, all_done, processes, printed, status_parts, report,
                 wkVars, histVars>>

\* A spawned worker ends by itself (run_from_csv.py, main).
WorkerExits(k) ==
  /\ entry = "run_multiworker"
  /\ processes[k].alive
  /\ \E c \in ExitCodes(processes[k].cmd) :
       processes' = [processes EXCEPT ![k].alive = FALSE, ![k].code = {c}]
  /\ UNCHANGED <<entry, rrVars, envVars, planVars, num_workers, scene_ids, work_chunks,
                 s_pc, s_k, all_done, log_files, printed, status_parts, report,
                 wkVars, histVars>>

\* A spawned worker that was sent SIGTERM is ended by it (run_from_csv.py
\* installs no handler).
WorkerKilled(k) ==
  /\ entry = "run_multiworker"
  /\ processes[k].alive
  /\ processes[k].signalled
  /\ processes' = [processes EXCEPT ![k].alive = FALSE, ![k].code = {SIGTERM}]
  /\ UNCHANGED <<entry, rrVars, envVars, planVars, num_workers, scene_ids, work_chunks,
                 s_pc, s_k, all_done, log_files, printed, status_parts, report,
                 wkVars, histVars>>

NextSupervisor ==
  \/ GetSceneIds
  \/ FilterIncomplete
  \/ PlanChunks
  \/ DryRun
  \/ Launch
  \/ StartMonitor
  \/ Poll
  \/ EndPoll
  \/ FinalSummary
  \/ InterruptUncaught
  \/ InterruptMonitor
  \/ InterruptHandler
  \/ Terminate
  \/ StartJoin
  \/ Join
  \/ Cancelled
  \/ \E k \in 1..Len(processes) : WorkerExits(k)
  \/ \E k \in 1..Len(processes) : WorkerKilled(k)

SpecSupervisor == InitSupervisor /\ [][NextSupervisor]_vars

\* The exit code of the supervisor's process, None while it runs: main
\* returns on every path and run_multiworker.py:297 calls main() and
\* nothing else, so the interpreter exits with 0; an exception that leaves
\* main ends it with 1, a KeyboardInterrupt that leaves main with SIGINT.
SIGINT == 0 - 2
SupervisorExitCode ==
  IF s_pc \in {"return_no_scenes", "return_dry_run", "return_cancelled",
               "return_complete"}
  THEN {0}
  ELSE IF s_pc = "exit_error" THEN {1}
  ELSE IF s_pc = "exit_interrupt" THEN {SIGINT}
  ELSE None

\* run_from_csv.py:194-213 as a function of the command line: the IDs of the
\* records a worker started with cmd selects, in the order in which its loop
\* meets them (the order of the catalog); a record outside the ID range is
\* skipped, and so is one with render.png under --skip_existing.
ProcessingOrder(cmd, catalog, rendered) ==
  SelectSeq([k \in 1..Len(catalog) |-> RowId(catalog[k])],
            LAMBDA id : InRange(id, cmd) /\ ~SkipsExisting(cmd, id, rendered))

\* The supervisor up to the partition: get_scene_ids, the filter, divide_work
\* (run_multiworker.py:135-150).
NextPlan == GetSceneIds \/ FilterIncomplete \/ PlanChunks
SpecPlan == InitSupervisor /\ [][NextPlan]_vars

\* A run that is not interrupted: well-formed catalogs, no dry run, at least
\* one worker. The supervisor keeps taking its steps (the monitor loop sleeps
\* 10 seconds and polls again, run_multiworker.py:265), and every worker
\* that runs ends at some time.
InitMonitor ==
  /\ InitSupervisor
  /\ csv_found
  /\ csv \in SupervisorCatalogs
  /\ s_args = NoSupervisorArgs
  /\ num_workers >= 1

SupervisorSteps ==
  \/ GetSceneIds
  \/ FilterIncomplete
  \/ PlanChunks
  \/ Launch
  \/ StartMonitor
  \/ Poll
  \/ EndPoll
  \/ FinalSummary

NextMonitor ==
  \/ SupervisorSteps
  \/ \E k \in 1..Len(processes) : WorkerExits(k)

SpecMonitorFair ==
  /\ InitMonitor
  /\ [][NextMonitor]_vars
  /\ WF_vars(SupervisorSteps)
  /\ \A k \in 1..MaxWorkers : WF_vars(k <= Len(processes) /\ WorkerExits(k))

(***************************************************************************)
(* rerender_missing.py                                                     *)
(***************************************************************************)
RECURSIVE SortedSeq(_)
\* sorted(...) of a set of directories, rerender_missing.py:51 (the names
\* are scene_ followed by the zero-padded ID, so name order is ID order)
SortedSeq(S) ==
  IF S = {} THEN <<>> ELSE <<SetMin(S)>> \o SortedSeq(S \ {SetMin(S)})

\* rerender_missing.py:52-56
NeedsRender(d, withGraph, withAssets, withRender) ==
  d \in withGraph /\ d \in withAssets /\ d \notin withRender

InitRerender ==
  /\ entry = "rerender_missing"
  /\ csv_found = FALSE
  /\ csv = <<>>
  /\ scene_dirs \in SUBSET Ids
  /\ graphs \in SUBSET scene_dirs
  /\ assets \in SUBSET scene_dirs
  /\ render \in SUBSET scene_dirs
  /\ blender_script \in BOOLEAN
  /\ r_args \in [dry_run : BOOLEAN]
  /\ to_render = <<>>
  /\ r_pc = "find"
  /\ r_outcome = <<>>
  /\ r_crash = ""
  /\ SupervisorIdle
  /\ WorkerIdle

\* rerender_missing.py:49-66
FindScenes ==
  /\ entry = "rerender_missing"
  /\ r_pc = "find"
  /\ to_render' = SelectSeq(SortedSeq(scene_dirs),
                            LAMBDA d : NeedsRender(d, graphs, assets, render))
  /\ r_outcome' = [k \in 1..Len(to_render') |-> "none"]
  /\ r_pc' = IF r_args.dry_run THEN "list" ELSE "loop"
  /\ i' = 1
  /\ UNCHANGED <<entry, envVars, supVars, w_args, w_pc, attempt, successful,
                 failed, skipped, error, histVars, scene_dirs, graphs,
                 blender_script, r_args, r_crash>>

\* rerender_missing.py:61-64, the dry run lists the scenes and returns
ListScenes ==
  /\ entry = "rerender_missing"
  /\ r_pc = "list"
  /\ r_pc' = "returned"
  /\ UNCHANGED <<entry, envVars, supVars, wkVars, histVars, scene_dirs,
                 graphs, blender_script, r_args, to_render, r_outcome,
                 r_crash>>

AtScene == entry = "rerender_missing" /\ r_pc = "loop" /\ i <= Len(to_render)

\* What one call of Blender can do when it returns (rerender_missing.py:25-37):
\* exit with 0 having written render.png, exit with 0 without it, or exit
\* with another code.
BlenderReturns == {"rendered", "no_render", "nonzero"}

\* The exceptions subprocess.run raises instead of returning
\* (rerender_missing.py:25-31): TimeoutExpired after timeout=1800 seconds,
\* FileNotFoundError when BLENDER_PATH does not exist.
BlenderRaises == {"TimeoutExpired", "FileNotFoundError"}

\* rerender_missing.py:73-80
CountScene(ok) ==
  /\ IF ok
     THEN successful' = successful + 1 /\ failed' = failed
     ELSE failed' = failed + 1 /\ successful' = successful
  /\ r_outcome' = [r_outcome EXCEPT ![i] = IF ok THEN "successful" ELSE "failed"]
  /\ i' = i + 1

\* rerender_missing.py:20-22 and 79-80: run_blender returns False without
\* starting Blender
ScriptMissing ==
  /\ AtScene
  /\ ~blender_script
  /\ CountScene(FALSE)
  /\ UNCHANGED <<entry, envVars, supVars, w_args, w_pc, attempt, skipped,
                 error, histVars, scene_dirs, graphs, blender_script, r_args,
                 to_render, r_pc, r_crash>>

\* rerender_missing.py:69-80, one scene whose Blender run returns
RenderScene ==
  /\ AtScene
  /\ blender_script
  /\ \E b \in BlenderReturns :
       /\ render' = IF b = "rendered" THEN render \cup {to_render[i]} ELSE render
       /\ CountScene(b # "nonzero" /\ to_render[i] \in render')
  /\ UNCHANGED <<entry, csv_found, csv, assets, supVars, w_args, w_pc,
                 attempt, skipped, error, histVars, scene_dirs, graphs,
                 blender_script, r_args, to_render, r_pc, r_crash>>

\* rerender_missing.py:25-31 and 72: subprocess.run raises; neither
\* run_blender nor main has a try block, so the exception ends the program
BlenderRunRaises ==
  /\ AtScene
  /\ blender_script
  /\ \E e \in BlenderRaises : r_crash' = e
  /\ r_pc' = "crashed"
  /\ UNCHANGED <<entry, envVars, supVars, wkVars, histVars, scene_dirs,
                 graphs, blender_script, r_args, to_render, r_outcome>>

\* rerender_missing.py:82-83
RerenderSummary ==
  /\ entry = "rerender_missing"
  /\ r_pc = "loop"
  /\ i > Len(to_render)
  /\ r_pc' = "done"
  /\ UNCHANGED <<entry, envVars, supVars, wkVars, histVars, scene_dirs,
                 graphs, blender_script, r_args, to_render, r_outcome,
                 r_crash>>

NextRerender ==
  \/ FindScenes
  \/ ListScenes
  \/ ScriptMissing
  \/ RenderScene
  \/ BlenderRunRaises
  \/ RerenderSummary

SpecRerender == InitRerender /\ [][NextRerender]_vars

\* Every entry point.
Init == InitDivide \/ InitWorker \/ InitSupervisor \/ InitRerender
Next == NextDivide \/ NextWorker \/ NextSupervisor \/ NextRerender
Spec == Init /\ [][Next]_vars

(***************************************************************************)
(* Properties                                                              *)
(***************************************************************************)
Divided == entry = "divide_work" /\ s_pc = "divided"

\* C1: for every list of scene IDs and every worker count >= 1 the chunks
\* divide_work returns, concatenated in worker order, are the input list
\* (every position of the input lies in exactly one chunk); every item is in
\* a chunk, the chunks of a list without repeated IDs are pairwise disjoint,
\* and any two chunk sizes differ by at most 1.
C1_PartitionCoverage ==
  Divided =>
    /\ Concat(work_chunks, Len(work_chunks)) = scene_ids
    /\ \A a, b \in 1..Len(work_chunks) :
         /\ Len(work_chunks[a]) - Len(work_chunks[b]) <= 1
         /\ (a # b /\ Cardinality(Range(scene_ids)) = Len(scene_ids)) =>
              Range(work_chunks[a]) \cap Range(work_chunks[b]) = {}
    /\ \A x \in Range(scene_ids) :
         \E a \in 1..Len(work_chunks) : x \in Range(work_chunks[a])

C1_Witness ==
  /\ Divided
  /\ Len(scene_ids) = 3
  /\ num_workers = 2
  /\ Len(work_chunks[1]) = 2
  /\ Len(work_chunks[2]) = 1

\* C2: divide_work returns exactly num_workers chunks; chunk i (0-based) has
\* (n div num_workers) + 1 items if i < n mod num_workers and n div
\* num_workers items otherwise, and is the contiguous run of the input that
\* follows chunk i-1; 10 items and 3 workers give sizes 4, 3, 3.
C2_ChunkSizes ==
  Divided =>
    LET n == Len(scene_ids)
        base == n \div num_workers
        rem == n % num_workers
        want(w) == IF w - 1 < rem THEN base + 1 ELSE base
        before(w) == Len(Concat(work_chunks, w - 1))
    IN /\ Len(work_chunks) = num_workers
       /\ \A w \in 1..num_workers :
            /\ Len(work_chunks[w]) = want(w)
            /\ work_chunks[w] = SubSeq(scene_ids, before(w) + 1, before(w) + want(w))
       /\ (n = 10 /\ num_workers = 3) =>
            <<Len(work_chunks[1]), Len(work_chunks[2]), Len(work_chunks[3])>> = <<4, 3, 3>>

C2_Witness ==
  /\ Divided
  /\ Len(scene_ids) = 10
  /\ num_workers = 3
  /\ work_chunks = <<<<1, 2, 3, 4>>, <<5, 6, 7>>, <<8, 9, 10>>>>

(***************************************************************************)
(* The worker's retry loop                                                 *)
(***************************************************************************)
InWorker == entry = "run_from_csv" /\ w_pc # "read_csv"
InAttempt ==
  InWorker /\ w_pc \in {"stage1", "stage2", "stage3", "verify", "except", "hung"}
AllFail(t) == \A k \in 1..Len(t) : t[k] = "fail"
FailsThenOk(t) ==
  /\ Len(t) >= 1
  /\ t[Len(t)] = "ok"
  /\ \A k \in 1..(Len(t) - 1) : t[k] = "fail"
Terminal(o) == o \in {"Success", "PermanentFailure"}
CountOf(o) == Cardinality({k \in 1..Len(outcome) : outcome[k] = o})

\* C3: the attempt index of an item starts at 1 and grows by exactly 1 per
\* attempt (it is always the number of the item's finished attempts plus 1);
\* an attempt is started only while every earlier attempt of the item failed
\* and there were fewer than MAX_RETRIES of them; an item that reached Success
\* or PermanentFailure is not the one being attempted, and its list of
\* attempts is closed (it ends with the success, or holds MAX_RETRIES
\* failures).
C3_AttemptIndex ==
  InWorker =>
    /\ InAttempt =>
         /\ attempt = Len(tries[i]) + 1
         /\ attempt \in 1..MAX_RETRIES
         /\ AllFail(tries[i])
         /\ Len(tries[i]) < MAX_RETRIES
         /\ ~Terminal(outcome[i])
    /\ \A k \in 1..Len(csv) :
         /\ Len(tries[k]) <= MAX_RETRIES
         /\ outcome[k] = "Success" => FailsThenOk(tries[k]) /\ (k < i)
         /\ outcome[k] = "PermanentFailure" =>
              AllFail(tries[k]) /\ Len(tries[k]) = MAX_RETRIES /\ (k < i)
         /\ (k # i \/ ~InAttempt) /\ tries[k] # <<>> => Terminal(outcome[k])

\* An item is in its last allowed attempt after MAX_RETRIES - 1 failures.
C3_Witness ==
  /\ InAttempt
  /\ attempt = MAX_RETRIES
  /\ Len(tries[i]) = MAX_RETRIES - 1
  /\ i = 2
  /\ outcome[1] = "Success"

\* C4: an item all of whose attempts fail gets exactly MAX_RETRIES attempts
\* and is recorded as failed (PermanentFailure, counted in failed); the step
\* that records it takes the worker to the next record of the catalog, not to
\* its end: a worker that ends abnormally does so at a later record.
C4_RetryExhaustion ==
  InWorker =>
    /\ \A k \in 1..Len(csv) :
         /\ (AllFail(tries[k]) /\ tries[k] # <<>> /\ (k # i \/ ~InAttempt))
              => outcome[k] = "PermanentFailure"
         /\ outcome[k] = "PermanentFailure" =>
              /\ Len(tries[k]) = MAX_RETRIES
              /\ AllFail(tries[k])
              /\ i > k
              /\ w_pc \in {"row", "done", "crashed"} \/ InAttempt
    /\ failed = CountOf("PermanentFailure")

\* The first item failed MAX_RETRIES times and the second is being attempted.
C4_Witness ==
  /\ InAttempt
  /\ i = 2
  /\ outcome[1] = "PermanentFailure"
  /\ Len(tries[1]) = MAX_RETRIES
  /\ failed = 1

\* C5: an item whose attempts 1..k-1 fail and whose attempt k succeeds
\* (1 <= k <= MAX_RETRIES) ends with outcome Success after exactly k attempts:
\* no further attempt follows the success; it is counted once in successful
\* and not in failed.
C5_RetryConvergence ==
  InWorker =>
    /\ \A k \in 1..Len(csv) :
         /\ (tries[k] # <<>> /\ tries[k][Len(tries[k])] = "ok") =>
              outcome[k] = "Success"
         /\ (\E n \in 1..Len(tries[k]) : tries[k][n] = "ok") =>
              /\ FailsThenOk(tries[k])
              /\ Len(tries[k]) <= MAX_RETRIES
              /\ outcome[k] = "Success"
              /\ ~(InAttempt /\ i = k)
    /\ successful = CountOf("Success")
    /\ failed = CountOf("PermanentFailure")
    /\ successful + failed <= Len(csv)

\* The first item succeeded on attempt MAX_RETRIES, the second on attempt 1.
C5_Witness ==
  /\ InWorker
  /\ w_pc = "done"
  /\ Len(csv) = 2
  /\ outcome = <<"Success", "Success">>
  /\ Len(tries[1]) = MAX_RETRIES
  /\ Len(tries[2]) = 1
  /\ successful = 2
  /\ failed = 0

\* The exceptions one record can raise outside the try block.
PerItemErrors == {"row_fields", "mkdir"}

\* C6: no per-item error escapes the worker's item loop: the worker never
\* ends abnormally because of one item (a record whose fields cannot be read,
\* an output directory that cannot be created, a failing stage).
C6_NoItemErrorEscapes == ~(w_pc = "crashed" /\ w_crash \in PerItemErrors)

(***************************************************************************)
(* The supervisor and its workers                                          *)
(***************************************************************************)
InSupervisor == entry = "run_multiworker"
Procs == 1..Len(processes)
Reaped(p) == ~p.alive /\ p.returncode # None

\* main has returned, or the supervisor process has ended with an exception.
SupervisorGone ==
  s_pc \in {"return_no_scenes", "return_dry_run", "return_cancelled",
            "return_complete", "exit_interrupt", "exit_error"}

\* C7: after an interrupt during monitoring the supervisor first deals with
\* every worker in turn (SIGTERM to each one that has not ended), then waits
\* for every worker, and only then returns: while it waits every worker has
\* been sent the termination request or had already ended, and when main
\* returns from the except block no worker process is alive (each has ended
\* and been reaped).
C7_CancelJoinsAll ==
  InSupervisor =>
    /\ s_pc \in {"join", "return_cancelled"} =>
         \A k \in Procs : processes[k].signalled \/ Reaped(processes[k])
    /\ s_pc = "join" => \A k \in 1..(s_k - 1) : Reaped(processes[k])
    /\ s_pc = "return_cancelled" => \A k \in Procs : Reaped(processes[k])

\* Three workers were running when the interrupt came; all were ended by
\* SIGTERM before main returned.
C7_Witness ==
  /\ InSupervisor
  /\ s_pc = "return_cancelled"
  /\ Len(processes) = 3
  /\ \A k \in Procs :
       processes[k].signalled /\ processes[k].returncode = {SIGTERM}

\* C8: in every state in which the supervisor has returned or exited, every
\* worker process it spawned has exited and been reaped.
C8_NoWorkerOutlives ==
  (InSupervisor /\ SupervisorGone) => \A k \in Procs : Reaped(processes[k])

\* The IDs of the catalog a worker started with cmd selects by its ID range
\* (run_from_csv.py:198-203).
WorkerItems(cmd) == {id \in CatalogIds(csv) : InRange(id, cmd)}

\* C9: for a catalog with unique IDs the ID ranges [min(chunk), max(chunk)]
\* handed to the spawned workers are pairwise disjoint, so no ID of the
\* catalog is selected by the range filter of two workers.
C9_DisjointRanges ==
  (InSupervisor /\ UniqueIds(csv)) =>
    \A a, b \in Procs :
      a < b =>
        /\ \A x \in processes[a].cmd.end_id, y \in processes[b].cmd.start_id : x < y
        /\ WorkerItems(processes[a].cmd) \cap WorkerItems(processes[b].cmd) = {}
        /\ Range(processes[a].chunk) \subseteq WorkerItems(processes[a].cmd)
        /\ Range(processes[b].chunk) \subseteq WorkerItems(processes[b].cmd)

\* The catalog lists 3, 1, 2; two workers got the ranges 1..2 and 3..3.
C9_Witness ==
  /\ InSupervisor
  /\ csv = <<GoodRow(3), GoodRow(1), GoodRow(2)>>
  /\ Len(processes) = 2
  /\ processes[1].chunk = <<1, 2>>
  /\ processes[2].chunk = <<3>>
  /\ processes[2].cmd.start_id = {3}

\* C10: with skip_existing set, an item whose render.png exists is in no
\* partition and in no spawned worker's chunk, and every spawned worker is
\* given --skip_existing; a worker that meets such an item invokes no stage
\* for it (it has no attempt), counts it as skipped and does not touch its
\* output directory.
C10_SkipExisting ==
  /\ (InSupervisor /\ s_args.skip_existing /\ s_pc \notin {"get_scene_ids", "filter"}) =>
       /\ \A id \in render :
            /\ id \notin Range(scene_ids)
            /\ \A w \in 1..Len(work_chunks) : id \notin Range(work_chunks[w])
            /\ \A k \in Procs : id \notin Range(processes[k].chunk)
       /\ \A k \in Procs :
            /\ processes[k].cmd.skip_existing
            /\ "--skip_existing" \in processes[k].cmd.options
  /\ (InWorker /\ w_args.skip_existing) =>
       /\ \A k \in seen_render :
            /\ outcome[k] = "Skipped"
            /\ tries[k] = <<>>
            /\ RowId(csv[k]) \notin touched
            /\ ~(InAttempt /\ i = k)
       /\ skipped = CountOf("Skipped")

\* Item 2 has render.png: the other two items were split among two workers.
C10_Witness ==
  /\ InSupervisor
  /\ s_args.skip_existing
  /\ render = {2}
  /\ Len(all_scene_ids) = 3
  /\ scene_ids = <<1, 3>>
  /\ Len(processes) = 2

(***************************************************************************)
(* The stages of one attempt                                               *)
(***************************************************************************)
\* run_from_csv.py:251, the message of the error raised for a missing render
RenderMissing == "render.png not found after Blender execution"

\* The attempt of the current record ends as a failure: nothing is counted as
\* successful, and one more attempt is used up.
ConsumesAttempt ==
  /\ tries'[i] = Append(tries[i], "fail")
  /\ successful' = successful
  /\ outcome'[i] # "Success"
  /\ IF attempt < MAX_RETRIES
     THEN attempt' = attempt + 1 /\ i' = i /\ w_pc' = "stage1"
     ELSE outcome'[i] = "PermanentFailure" /\ i' = i + 1

\* C11: with the render stage enabled, when Blender has exited with status 0
\* and render.png does not exist, the attempt is a failed one: the next step
\* enters the except block without counting the item as successful, and the
\* except block uses up one attempt of the retry budget.
C11_MissingRenderFails ==
  [][/\ (InWorker /\ w_pc = "verify" /\ RowId(csv[i]) \notin render) =>
          /\ w_pc' = "except"
          /\ error' = RenderMissing
          /\ successful' = successful
          /\ outcome' = outcome
     /\ (InWorker /\ w_pc = "except" /\ error = RenderMissing) =>
          ConsumesAttempt]_vars

\* Blender exited with status 0 on the first attempt of the first record and
\* left no render.png: the worker is in the except block.
C11_Witness ==
  /\ InWorker
  /\ ~w_args.skip_render
  /\ w_pc = "except"
  /\ error = RenderMissing
  /\ RowId(csv[i]) \notin render
  /\ attempt = 1
  /\ successful = 0

\* C12: an item is counted successful only if each enabled stage left its
\* artifact on disk: Assets/ when retrieval is enabled, render.png when
\* rendering is enabled (an attempt whose stage exits with success but leaves
\* no artifact is a failed attempt).
C12_StageArtifacts ==
  InWorker =>
    \A k \in 1..Len(csv) :
      outcome[k] = "Success" =>
        /\ ~w_args.skip_retrieve => RowId(csv[k]) \in assets
        /\ ~w_args.skip_render => RowId(csv[k]) \in render

(***************************************************************************)
(* get_scene_ids                                                           *)
(***************************************************************************)
\* get_scene_ids has returned its list.
GotSceneIds ==
  InSupervisor /\ s_pc # "get_scene_ids" /\ ~GetSceneIdsRaises(csv_found, csv)

\* id lies within the inclusive bounds, an absent bound being unbounded.
Within(id, lo, hi) == (\A v \in lo : id >= v) /\ (\A v \in hi : id <= v)

Occurrences(seq, x) == Cardinality({k \in 1..Len(seq) : seq[k] = x})
Ascending(seq) == \A a, b \in 1..Len(seq) : a < b => seq[a] <= seq[b]

\* The IDs of the catalog within the bounds, in the order of the catalog.
InCatalogOrder ==
  SelectSeq([k \in 1..Len(csv) |-> RowId(csv[k])],
            LAMBDA x : Within(x, s_args.start_id, s_args.end_id))

\* C13 as stated: get_scene_ids returns exactly the items whose ID lies
\* within start_id..end_id (an absent bound being unbounded), in the same
\* relative order as they appear in the catalog.
C13_RangeFilterKeepsOrder == GotSceneIds => all_scene_ids = InCatalogOrder

\* C13 amended: get_scene_ids returns exactly the items whose ID lies within
\* start_id..end_id (an absent bound being unbounded), each as often as it
\* is in the catalog, in ascending order of ID; that is the order of the
\* catalog when the catalog is in ascending order.
C13_RangeFilterSorted ==
  GotSceneIds =>
    /\ \A id \in Ids :
         Occurrences(all_scene_ids, id) = Occurrences(InCatalogOrder, id)
    /\ Len(all_scene_ids) = Len(InCatalogOrder)
    /\ \A k \in 1..Len(all_scene_ids) :
         Within(all_scene_ids[k], s_args.start_id, s_args.end_id)
    /\ Ascending(all_scene_ids)
    /\ Ascending(InCatalogOrder) => all_scene_ids = InCatalogOrder

\* The catalog lists 3, 1, 2 and start_id is 2: the list is 2, 3.
C13_Witness ==
  /\ GotSceneIds
  /\ csv = <<GoodRow(3), GoodRow(1), GoodRow(2)>>
  /\ s_args.start_id = {2}
  /\ s_args.end_id = None
  /\ all_scene_ids = <<2, 3>>

\* C14: a stage invocation that runs beyond the per-attempt timeout is ended
\* and its attempt counted as failed, so the worker is never still inside a
\* stage invocation that has outlasted the timeout.
C14_StageTimeout == ~(InWorker /\ w_pc = "hung")

(***************************************************************************)
(* Exit codes                                                              *)
(***************************************************************************)
\* C15: the supervisor's process exits with code 0 only if no worker process
\* exited with a nonzero code.
C15_ExitCodeReflectsWorkers ==
  (InSupervisor /\ SupervisorExitCode = {0}) =>
    \A k \in Procs : processes[k].code \subseteq {0}

\* The worker has gone through every record of the catalog: each one was
\* skipped (out of the range, or already rendered), succeeded or failed for good.
GoneThrough ==
  /\ csv_found
  /\ i > Len(csv)
  /\ \A k \in 1..Len(csv) :
       outcome[k] \in {"Skipped", "Success", "PermanentFailure"}

\* C16: a worker that has exited did so with code 0 exactly when it had gone
\* through every record, whatever the records' outcomes (a record that
\* failed for good does not make the code nonzero); it exits with a nonzero
\* code only when an exception left main, and then some record was not
\* gone through.
C16_WorkerExitCode ==
  entry = "run_from_csv" =>
    /\ WorkerExitCode # None => (WorkerExitCode = {0} <=> GoneThrough)
    /\ (WorkerExitCode # None /\ WorkerExitCode # {0}) =>
         w_pc = "crashed" /\ w_crash # ""
    /\ w_pc = "done" => WorkerExitCode = {0}
    /\ w_pc = "crashed" => WorkerExitCode = {1}

\* The worker has exited with code 0 after one record that failed for good
\* and one that was skipped.
C16_Witness ==
  /\ InWorker
  /\ w_pc = "done"
  /\ WorkerExitCode = {0}
  /\ outcome = <<"PermanentFailure", "Skipped">>
  /\ failed = 1
  /\ skipped = 1

(***************************************************************************)
(* End to end                                                              *)
(***************************************************************************)
\* The catalog 1, 2, 3 is run with 2 workers, nothing exists beforehand.
ThreeItemsTwoWorkers ==
  /\ InSupervisor
  /\ csv = <<GoodRow(1), GoodRow(2), GoodRow(3)>>
  /\ num_workers = 2
  /\ render = {}
  /\ s_args.start_id = None
  /\ s_args.end_id = None
  /\ ~s_args.dry_run

\* C17: for the catalog 1, 2, 3 with 2 workers and nothing on disk, when
\* the run is reported complete worker 0 was given [1, 2] and worker 1 was
\* given [3], and both workers ran their item loops to the end (each exited
\* with code 0 after its summary).
C17_EndToEnd ==
  (ThreeItemsTwoWorkers /\ s_pc = "return_complete") =>
    /\ Len(processes) = 2
    /\ processes[1].chunk = <<1, 2>>
    /\ processes[2].chunk = <<3>>
    /\ \A k \in Procs : processes[k].returncode = {0}

(***************************************************************************)
(* Fatal errors of the supervisor                                          *)
(***************************************************************************)
\* C18: with a worker count below 1 no worker is ever spawned and the run is
\* never reported as complete.
C18_WorkerCountBelowOne ==
  (InSupervisor /\ num_workers < 1) =>
    /\ processes = <<>>
    /\ s_pc # "return_complete"

\* The catalog file is missing, or one of its records lacks the ID or the
\* Description.
BadCatalog == ~csv_found \/ ~WellFormed(csv)

\* C19: with a missing or malformed catalog the run fails before anything is
\* done: the supervisor computes no partition and spawns no worker, and the
\* single worker attempts no item (it creates no scene directory and runs no
\* stage).
C19_BadCatalogFailsEarly ==
  /\ (InSupervisor /\ BadCatalog) =>
       /\ work_chunks = <<>>
       /\ processes = <<>>
  /\ (entry = "run_from_csv" /\ BadCatalog) =>
       /\ touched = {}
       /\ \A k \in DOMAIN tries : tries[k] = <<>>
       /\ ~InAttempt

(***************************************************************************)
(* The dry run                                                             *)
(***************************************************************************)
\* The chunks of the partition that are not empty, in worker order.
NonEmptyChunks == SelectSeq(work_chunks, LAMBDA c : c # <<>>)

\* C20: in dry-run mode the supervisor spawns no worker and opens no log
\* file, and returns right after printing; what it prints is one command
\* per non-empty chunk, in worker order, each identical to the command the
\* launch loop builds for that chunk. Outside dry-run mode nothing is printed.
C20_DryRun ==
  InSupervisor =>
    /\ s_args.dry_run =>
         /\ processes = <<>>
         /\ log_files = <<>>
         /\ s_pc \in {"get_scene_ids", "filter", "divide", "dry_run",
                      "return_no_scenes", "return_dry_run", "exit_error",
                      "exit_interrupt"}
         /\ s_pc = "return_dry_run" =>
              /\ Len(printed) = Len(NonEmptyChunks)
              /\ \A k \in 1..Len(printed) :
                   printed[k] = WorkerCmd(NonEmptyChunks[k], s_args)
    /\ printed # <<>> => s_args.dry_run /\ s_pc = "return_dry_run"
    /\ \A k \in Procs :
         processes[k].cmd = WorkerCmd(processes[k].chunk, s_args)

\* A dry run with 3 workers for 2 scenes and --skip_render: two commands were
\* printed, both with --skip_render, none for the empty chunk.
C20_Witness ==
  /\ InSupervisor
  /\ s_args.dry_run
  /\ s_args.skip_render
  /\ s_pc = "return_dry_run"
  /\ num_workers = 3
  /\ Len(scene_ids) = 2
  /\ Len(printed) = 2
  /\ "--skip_render" \in printed[1].options
  /\ printed[2].start_id = {SetMin(Range(work_chunks[2]))}
  /\ processes = <<>>
  /\ log_files = <<>>

(***************************************************************************)
(* Empty chunks and the number of workers                                  *)
(***************************************************************************)
\* The launch loop is over.
Launched ==
  InSupervisor /\ s_pc \in {"monitor", "terminate", "join", "summary",
                            "return_cancelled", "return_complete"}

\* C21: for a worker count of at least 1, divide_work applied to the empty
\* list returns as many chunks as there are workers, all empty; and the
\* supervisor starts one worker per non-empty chunk, in chunk order, and none
\* for an empty chunk: once the launch loop is over the number of spawned
\* workers is the number of non-empty chunks, min(num_workers, number of
\* scenes).
C21_WorkersPerChunk ==
  /\ (Divided /\ scene_ids = <<>>) =>
       /\ Len(work_chunks) = num_workers
       /\ \A w \in 1..Len(work_chunks) : work_chunks[w] = <<>>
  /\ (Launched /\ num_workers >= 1) =>
       /\ Len(work_chunks) = num_workers
       /\ Len(processes) = Len(NonEmptyChunks)
       /\ \A k \in Procs : processes[k].chunk = NonEmptyChunks[k]
       /\ Len(processes) = Min(num_workers, Len(scene_ids))
  /\ (InSupervisor /\ s_pc = "launch") =>
       Len(processes) =
         Cardinality({w \in 1..(s_k - 1) : work_chunks[w] # <<>>})

\* Three workers were asked for and there are two scenes: two workers were
\* spawned, the third chunk is empty.
C21_Witness ==
  /\ Launched
  /\ num_workers = 3
  /\ Len(scene_ids) = 2
  /\ work_chunks[3] = <<>>
  /\ Len(processes) = 2
  /\ processes[2].worker_id = 1

(***************************************************************************)
(* The order of the stages                                                 *)
(***************************************************************************)
\* The stages in their fixed order, and those the worker's options enable.
Stages == <<"generate", "retrieve", "render">>
EnabledStages == SelectSeq(Stages, LAMBDA st : StageEnabled(st, w_args))
Prefix(s, n) == SubSeq(s, 1, n)
IsPrefix(s, t) == Len(s) <= Len(t) /\ s = Prefix(t, Len(s))

\* How many of the enabled stages an attempt at this position has invoked.
\* In the except block the message says which stage failed.
StagesBehind ==
  LET upto(st) == CHOOSE n \in 1..Len(EnabledStages) : EnabledStages[n] = st
  IN CASE w_pc = "stage1" -> 0
       [] w_pc = "stage2" -> 1
       [] w_pc = "stage3" -> IF StageEnabled("retrieve", w_args) THEN 2 ELSE 1
       [] w_pc = "verify" -> Len(EnabledStages)
       [] w_pc = "hung" -> Len(invoked)
       [] w_pc = "except" ->
            IF error = "generate_scene" THEN 1
            ELSE IF error = "Asset retrieval failed" THEN upto("retrieve")
            ELSE upto("render")

\* C22: at every point of every attempt, the first as well as a retried one,
\* the stages invoked so far in the attempt are the first enabled stages in
\* the order generation, retrieval, rendering: each attempt starts with none
\* invoked and at stage 1, whatever the previous attempt reached, and when a
\* stage has failed the invoked stages end with it (none after it is invoked).
C22_StageOrder ==
  InWorker =>
    /\ InAttempt =>
         /\ IsPrefix(invoked, EnabledStages)
         /\ Len(invoked) = StagesBehind
         /\ w_pc = "except" => error # ""
         /\ attempt \in 1..MAX_RETRIES
    /\ ~InAttempt => invoked = <<>>

\* The second attempt of an item has invoked all three stages from the first
\* one on and its render stage failed; the first attempt had failed too.
C22_Witness ==
  /\ InWorker
  /\ w_pc = "except"
  /\ attempt = 2
  /\ tries[i] = <<"fail">>
  /\ invoked = <<"generate", "retrieve", "render">>
  /\ error = "Blender rendering failed"

(***************************************************************************)
(* Disabled stages                                                         *)
(***************************************************************************)
\* The stages that some choice of the worker's options disables.
Disableable ==
  {st \in Range(Stages) : \E a \in WorkerArgs : ~StageEnabled(st, a)}

\* A disabled stage is not invoked and none of its errors is raised.
DisabledStagesRest ==
  InWorker =>
    /\ w_args.skip_retrieve =>
         /\ "retrieve" \notin Range(invoked)
         /\ error # "Asset retrieval failed"
    /\ w_args.skip_render =>
         /\ "render" \notin Range(invoked)
         /\ error \notin {"Blender rendering failed", RenderMissing}
         /\ w_pc # "verify"

\* C23 as stated: each of the three stages can be disabled by the
\* configuration, and a disabled stage is never invoked and never makes an
\* attempt fail.
C23_AnyStageCanBeDisabled ==
  /\ Disableable = Range(Stages)
  /\ DisabledStagesRest

\* C23 amended: asset retrieval and rendering, and only they, can be
\* disabled by the configuration (scene-graph generation is invoked first in
\* every attempt); a disabled stage is never invoked and never makes an
\* attempt fail.
C23_DisabledStages ==
  /\ Disableable = {"retrieve", "render"}
  /\ DisabledStagesRest
  /\ (InAttempt /\ w_pc # "stage1") => invoked[1] = "generate"

\* With both options given an item succeeded on its first attempt although
\* neither Assets/ nor render.png exists.
C23_Witness ==
  /\ InWorker
  /\ w_args.skip_retrieve
  /\ w_args.skip_render
  /\ Len(outcome) >= 1
  /\ outcome[1] = "Success"
  /\ tries[1] = <<"ok">>
  /\ RowId(csv[1]) \notin render
  /\ RowId(csv[1]) \notin assets

(***************************************************************************)
(* A chunk and the worker started for it                                   *)
(***************************************************************************)
\* The IDs worker k goes through, in its order.
OrderOf(k) == ProcessingOrder(processes[k].cmd, csv, render)

\* C24: for every catalog with unique IDs, sorted by ID or not, the worker
\* started for a chunk goes through the items in the order in which the chunk
\* lists them.
C24_ChunkOrder ==
  (InSupervisor /\ WellFormed(csv) /\ UniqueIds(csv)) =>
    \A k \in Procs : OrderOf(k) = processes[k].chunk

\* C25: the already-complete check is made once, before the partition: the
\* worker started for a chunk attempts every item of the chunk, whichever
\* render.png files (later) have come into existence since the partition was
\* computed.
C25_CheckedOnce ==
  (InSupervisor /\ WellFormed(csv) /\ UniqueIds(csv)) =>
    \A k \in Procs :
      \A later \in SUBSET Range(processes[k].chunk) :
        Range(processes[k].chunk) \subseteq
          Range(ProcessingOrder(processes[k].cmd, csv, render \cup later))

(***************************************************************************)
(* The monitor loop and the final summary                                  *)
(***************************************************************************)
\* What holds of the status line and of the summary in every state.
MonitorSafe ==
  InSupervisor =>
    /\ s_pc = "monitor" =>
         /\ Len(status_parts) = s_k - 1
         \* the next worker is polled whatever the state of the others
         /\ s_k <= Len(processes) => ENABLED Poll
    /\ \A j \in 1..Len(status_parts) :
         /\ status_parts[j].worker_id = processes[j].worker_id
         /\ status_parts[j].status = "running" <=> status_parts[j].ret = None
         /\ status_parts[j].status = "done" <=> status_parts[j].ret = {0}
         /\ status_parts[j].status = "failed" <=>
              status_parts[j].ret \notin {None, {0}}
         /\ status_parts[j].ret # None =>
              /\ ~processes[j].alive
              /\ status_parts[j].ret = processes[j].code
    /\ s_pc \in {"summary", "return_complete"} =>
         /\ all_done
         /\ Len(status_parts) = Len(processes)
         /\ \A k \in Procs :
              Reaped(processes[k]) /\ status_parts[k].status # "running"
    /\ report # <<>> => s_pc = "return_complete"
    /\ s_pc = "return_complete" =>
         /\ Len(report) = Len(processes)
         /\ \A k \in Procs :
              /\ report[k].worker_id = processes[k].worker_id
              /\ report[k].status = "SUCCESS" <=> processes[k].code = {0}
              /\ report[k].status \in {"SUCCESS", "FAILED"}

\* C26: each poll classifies every worker as running, done or failed(code)
\* by its exit code, without waiting for any of them; the loop is left for
\* the summary only after a poll in which every worker had exited; the
\* summary reports a worker SUCCESS exactly when its exit code is 0; and in a
\* run without interrupt in which every worker ends, a supervisor that
\* monitors eventually prints the summary.
C26_MonitorLoop ==
  /\ []MonitorSafe
  /\ (InSupervisor /\ s_pc = "monitor") ~> (s_pc = "return_complete")

\* Two workers ended with a nonzero code; the last status line says failed
\* for both and the summary FAILED for both.
C26_Witness ==
  /\ InSupervisor
  /\ s_pc = "return_complete"
  /\ Len(processes) = 2
  /\ \A k \in Procs :
       /\ status_parts[k].status = "failed"
       /\ status_parts[k].ret = {2}
       /\ report[k].status = "FAILED"

(***************************************************************************)
(* The workers' log files                                                  *)
(***************************************************************************)
\* C27: every spawned worker has a log handle of its own, named after its
\* worker number, and no log handle is closed while its worker is alive.
C27_LogsOpenWhileAlive ==
  InSupervisor =>
    /\ Len(log_files) = Len(processes)
    /\ \A a, b \in Procs :
         a # b => processes[a].worker_id # processes[b].worker_id
    /\ \A k \in Procs : processes[k].alive => log_files[k]


(***************************************************************************)
(* The worker's command line                                               *)
(***************************************************************************)
\* run_from_csv.py:164-213, the items the process started with cmd attempts:
\* none when parse_args rejects the command line, else the rows the loop
\* neither filters out by range nor skips as already rendered
Attempts(cmd, catalog, rendered) ==
  IF cmd.options \subseteq WorkerOptions
    THEN Range(ProcessingOrder(cmd, catalog, rendered))
    ELSE {}

\* C28: for a catalog with unique IDs, the items a spawned worker attempts
\* are exactly the items of its chunk.
C28_AttemptsChunk ==
  (InSupervisor /\ WellFormed(csv) /\ UniqueIds(csv)) =>
    \A k \in Procs :
      Attempts(processes[k].cmd, csv, render) = Range(processes[k].chunk)

\* C29: every option on a spawned worker's command line is one the worker's
\* parser accepts, and no spawned worker ends with the exit code of an
\* argument error.
C29_OptionsAccepted ==
  InSupervisor =>
    \A k \in Procs :
      /\ processes[k].cmd.options \subseteq WorkerOptions
      /\ processes[k].returncode # {2}


(***************************************************************************)
(* The worker's counters                                                   *)
(***************************************************************************)
\* The records whose iteration of the loop is over.
Finished == 1..(i - 1)

\* C30: at every point of the worker's loop successful + failed + skipped is
\* the number of records already finished, each finished record being counted
\* in exactly one of the three; at the final summary the sum is the number of
\* records of the catalog.
C30_CountersPartition ==
  (InWorker /\ w_crash # "open_csv") =>
    /\ successful + failed + skipped = i - 1
    /\ \A k \in 1..Len(csv) : k \in Finished <=> outcome[k] # "none"
    /\ successful = CountOf("Success")
    /\ failed = CountOf("PermanentFailure")
    /\ skipped = CountOf("Skipped")
    /\ w_pc = "done" => successful + failed + skipped = Len(csv)

\* A run reached its summary with one record skipped and one failed for good.
C30_Witness ==
  /\ InWorker
  /\ w_pc = "done"
  /\ Len(csv) = 2
  /\ successful = 0
  /\ failed = 1
  /\ skipped = 1
  /\ i = 3


(***************************************************************************)
(* rerender_missing.py                                                     *)
(***************************************************************************)
InRerender == entry = "rerender_missing" /\ r_pc # "find"

\* C31: the scenes rerender_missing selects are exactly those with
\* scene_graph.json and Assets and without render.png; whatever a Blender
\* run does, the run is never ended by it: every scene the loop has passed
\* is counted once, as successful (render.png now exists) or as failed, and
\* at the end successful + failed is the number of selected scenes.
C31_EverySceneCounted ==
  InRerender =>
    /\ \A d \in Ids :
         d \in Range(to_render) <=>
           /\ d \in scene_dirs /\ d \in graphs /\ d \in assets
           /\ d \in render =>
                \E k \in 1..Len(to_render) :
                  to_render[k] = d /\ r_outcome[k] = "successful"
    /\ r_pc # "crashed"
    /\ r_pc = "loop" =>
         /\ successful + failed = i - 1
         /\ \A k \in 1..Len(to_render) : k < i <=> r_outcome[k] # "none"
    /\ r_pc = "done" =>
         /\ successful + failed = Len(to_render)
         /\ \A k \in 1..Len(to_render) : r_outcome[k] # "none"
    /\ successful =
         Cardinality({k \in 1..Len(to_render) : r_outcome[k] = "successful"})
    /\ failed =
         Cardinality({k \in 1..Len(to_render) : r_outcome[k] = "failed"})
    /\ \A k \in 1..Len(to_render) :
         r_outcome[k] = "successful" => to_render[k] \in render

=============================================================================
